---- MODULE Spec2Model ----
(***************************************************************************)
(* Model of src/minesweeper.py: the Minesweeper board (ground truth), the  *)
(* Sentence class and the MinesweeperAI knowledge base with its inference  *)
(* step add_knowledge and the two move selectors.                          *)
(***************************************************************************)
EXTENDS Integers, Sequences, FiniteSets, TLC

VARIABLES
    height,      \* MinesweeperAI.height / Minesweeper.height
    width,       \* MinesweeperAI.width / Minesweeper.width
    board,       \* Minesweeper.mines: the cells whose board[i][j] is True
    moves_made,  \* MinesweeperAI.moves_made
    mines,       \* MinesweeperAI.mines
    safes,       \* MinesweeperAI.safes
    knowledge,   \* MinesweeperAI.knowledge: sequence of Sentence
    op,          \* the last operation called on the AI, with its arguments
    ret,         \* the value that operation returned
    raised,      \* the exception that operation raised, "none" if it returned
    calls        \* number of add_knowledge calls made so far

vars == <<height, width, board, moves_made, mines, safes, knowledge,
          op, ret, raised, calls>>

-----------------------------------------------------------------------------
(* Program constants *)

\* default height and width of Minesweeper and MinesweeperAI
DefaultSize == 8
\* number of mines Minesweeper.__init__ places: while len(self.mines) != 8
MineCount == 8
\* the largest row / column index get_neighbors accepts: cell[0] + 1 <= 7
MaxIndex == 7

(* Bounds of the exploration *)

\* add_knowledge is called on the first RegionSize cells of the strip made of
\* the top StripRows rows of the board, taken column by column; the mines that
\* vary lie among these cells, the remaining ones in the last row of the board
RegionSize == 6
StripRows == 2
\* at most this many mines lie in the region
MaxNearMines == 2
\* at most this many add_knowledge calls in one behaviour
MaxCalls == 4
\* the move selectors are called after at most this many add_knowledge calls
MaxQueryCalls == 2
\* SpecAI: the AI is constructed with height, width in 1..MaxSide and plays
\* a board of that size that holds at most MaxSmallMines mines
MaxSide == 2
MaxSmallMines == 1
\* SpecAPI: at most MaxAPICalls calls of the AI's methods in one behaviour,
\* add_knowledge being told a count in 0..MaxCount
MaxAPICalls == 2
MaxCount == 2

\* Python's None, as a return value: the empty tuple (a cell is a pair)
None == <<>>

-----------------------------------------------------------------------------
(* Minesweeper *)

Cells(h, w) == (0 .. h - 1) \X (0 .. w - 1)

\* Minesweeper.nearby_mines
nearby_mines(h, w, b, cell) ==
    Cardinality({ n \in ((cell[1] - 1) .. (cell[1] + 1)) \X ((cell[2] - 1) .. (cell[2] + 1)) :
                    /\ n # cell
                    /\ 0 <= n[1] /\ n[1] < h /\ 0 <= n[2] /\ n[2] < w
                    /\ n \in b })

\* Minesweeper.is_mine
is_mine(b, cell) == cell \in b

-----------------------------------------------------------------------------
(* Sentence *)

\* Sentence.__init__. id is the identity of the object constructed: the
\* number of the add_knowledge call that constructs it
Sentence(cells, count, id) ==
    [cells |-> cells, count |-> count, mines |-> {}, safes |-> {}, id |-> id]

\* Sentence.mark_mine that removes the cell and forgets self.count -= 1
Sentence_mark_mine_keep_count(s, cell) ==
    IF cell \in s.cells
    THEN [s EXCEPT !.cells = @ \ {cell}, !.mines = @ \cup {cell}]
    ELSE s

\* Sentence.mark_mine without the test "if cell in self.cells"
Sentence_mark_mine_unguarded(s, cell) ==
    [s EXCEPT !.cells = @ \ {cell}, !.count = @ - 1, !.mines = @ \cup {cell}]

\* Sentence.mark_mine
Sentence_mark_mine(s, cell) ==
    IF cell \in s.cells
    THEN [s EXCEPT !.cells = @ \ {cell}, !.count = @ - 1, !.mines = @ \cup {cell}]
    ELSE s

\* Sentence.mark_safe
Sentence_mark_safe(s, cell) ==
    IF cell \in s.cells
    THEN [s EXCEPT !.cells = @ \ {cell}, !.safes = @ \cup {cell}]
    ELSE s

-----------------------------------------------------------------------------
(* MinesweeperAI: the knowledge base as a value                             *)
(* [moves_made, mines, safes, knowledge]                                   *)

\* MinesweeperAI.__init__
NewAI == [moves_made |-> {}, mines |-> {}, safes |-> {}, knowledge |-> <<>>]

\* MinesweeperAI.mark_mine
mark_mine(ai, cell) ==
    [ai EXCEPT !.mines = @ \cup {cell},
               !.knowledge = [i \in 1 .. Len(@) |-> Sentence_mark_mine(@[i], cell)]]

\* MinesweeperAI.mark_safe
mark_safe(ai, cell) ==
    [ai EXCEPT !.safes = @ \cup {cell},
               !.knowledge = [i \in 1 .. Len(@) |-> Sentence_mark_safe(@[i], cell)]]

\* MinesweeperAI.get_neighbors
get_neighbors(cell) ==
    LET r == cell[1]
        c == cell[2]
    IN  (IF r - 1 >= 0 /\ c - 1 >= 0 THEN {<<r - 1, c - 1>>} ELSE {})
        \cup (IF r - 1 >= 0 THEN {<<r - 1, c>>} ELSE {})
        \cup (IF r - 1 >= 0 /\ c + 1 <= MaxIndex THEN {<<r - 1, c + 1>>} ELSE {})
        \cup (IF c + 1 <= MaxIndex THEN {<<r, c + 1>>} ELSE {})
        \cup (IF r + 1 <= MaxIndex /\ c + 1 <= MaxIndex THEN {<<r + 1, c + 1>>} ELSE {})
        \cup (IF r + 1 <= MaxIndex THEN {<<r + 1, c>>} ELSE {})
        \cup (IF r + 1 <= MaxIndex /\ c - 1 >= 0 THEN {<<r + 1, c - 1>>} ELSE {})
        \cup (IF c - 1 >= 0 THEN {<<r, c - 1>>} ELSE {})

\* MinesweeperAI.test_for_subset
test_for_subset(a, b) == \A cell \in a : cell \in b

\* diff_sentences that subtracts the cells and leaves the count as it was
diff_sentences_keep_count(K, pair) ==
    [K EXCEPT ![pair[2]] = [@ EXCEPT !.cells = @ \ K[pair[1]].cells]]

\* MinesweeperAI.diff_sentences, when every cell of the first Sentence is in
\* the second one (set.remove raises KeyError otherwise, see resolve)
diff_sentences(K, pair) ==
    [K EXCEPT ![pair[2]] = [@ EXCEPT !.cells = @ \ K[pair[1]].cells,
                                     !.count = @ - K[pair[1]].count]]

\* add_knowledge, "Remove subsets where possible": the detection pass.
\* The pairs (i, j), i < j, in the order the two nested loops append them.
subset_pairs(K) ==
    LET n == Len(K)
        all == [k \in 1 .. n * n |-> <<((k - 1) \div n) + 1, ((k - 1) % n) + 1>>]
        Test(p) == p[1] < p[2] /\ test_for_subset(K[p[1]].cells, K[p[2]].cells)
    IN  SelectSeq(all, Test)

\* add_knowledge, the loop "for pair in subset_pairs_no_duplicates:
\* self.diff_sentences(pair)". failed is the pair whose diff_sentences raised
\* KeyError (knowledge is then the list as it was when that call started),
\* <<>> when every call returned.
RECURSIVE resolve(_, _)
resolve(K, pairs) ==
    IF pairs = <<>>
    THEN [knowledge |-> K, failed |-> <<>>]
    ELSE LET pair == Head(pairs)
         IN  IF K[pair[1]].cells \subseteq K[pair[2]].cells
             THEN resolve(diff_sentences(K, pair), Tail(pairs))
             ELSE [knowledge |-> K, failed |-> pair]

\* "for cell in safe_cells: self.mark_safe(cell)"
RECURSIVE mark_safe_cells(_, _)
mark_safe_cells(ai, cells) ==
    IF cells = {}
    THEN ai
    ELSE LET cell == CHOOSE x \in cells : TRUE
         IN  mark_safe_cells(mark_safe(ai, cell), cells \ {cell})

\* "for cell in mine_cell: self.mark_mine(cell)"
RECURSIVE mark_mine_cells(_, _)
mark_mine_cells(ai, cells) ==
    IF cells = {}
    THEN ai
    ELSE LET cell == CHOOSE x \in cells : TRUE
         IN  mark_mine_cells(mark_mine(ai, cell), cells \ {cell})

\* "for i in reversed(indexes): del self.knowledge[i]"
RECURSIVE delete_indexes(_, _, _)
delete_indexes(K, indexes, i) ==
    IF i > Len(K)
    THEN <<>>
    ELSE (IF i \in indexes THEN <<>> ELSE <<K[i]>>) \o delete_indexes(K, indexes, i + 1)

\* the zero-count pass that marks the cells safe and forgets to delete the
\* statements
RECURSIVE collapse_safe_no_delete(_, _, _)
collapse_safe_no_delete(ai, i, indexes) ==
    IF i > Len(ai.knowledge)
    THEN ai
    ELSE IF ai.knowledge[i].count = 0
         THEN collapse_safe_no_delete(mark_safe_cells(ai, ai.knowledge[i].cells), i + 1,
                                      indexes \cup {i})
         ELSE collapse_safe_no_delete(ai, i + 1, indexes)

\* add_knowledge, "Mark safe cells that are in statements of count == 0 and
\* delete the statement": the loop over i, from index i on
RECURSIVE collapse_safe(_, _, _)
collapse_safe(ai, i, indexes) ==
    IF i > Len(ai.knowledge)
    THEN [ai EXCEPT !.knowledge = delete_indexes(@, indexes, 1)]
    ELSE IF ai.knowledge[i].count = 0
         THEN collapse_safe(mark_safe_cells(ai, ai.knowledge[i].cells), i + 1,
                            indexes \cup {i})
         ELSE collapse_safe(ai, i + 1, indexes)

\* the mine pass that tests count == 1 alone, whatever the number of cells
RECURSIVE collapse_mine_any_size(_, _, _)
collapse_mine_any_size(ai, i, indexes) ==
    IF i > Len(ai.knowledge)
    THEN [ai EXCEPT !.knowledge = delete_indexes(@, indexes, 1)]
    ELSE IF ai.knowledge[i].count = 1
         THEN collapse_mine_any_size(mark_mine_cells(ai, ai.knowledge[i].cells), i + 1,
                                     indexes \cup {i})
         ELSE collapse_mine_any_size(ai, i + 1, indexes)

\* add_knowledge, "Mark mines that are in statements of count == 1 and
\* delete the statement": the loop over i, from index i on
RECURSIVE collapse_mine(_, _, _)
collapse_mine(ai, i, indexes) ==
    IF i > Len(ai.knowledge)
    THEN [ai EXCEPT !.knowledge = delete_indexes(@, indexes, 1)]
    ELSE IF ai.knowledge[i].count = 1 /\ Cardinality(ai.knowledge[i].cells) = 1
         THEN collapse_mine(mark_mine_cells(ai, ai.knowledge[i].cells), i + 1,
                            indexes \cup {i})
         ELSE collapse_mine(ai, i + 1, indexes)

\* steps 1 to 3 without step 2, the call self.mark_safe(cell)
observe_no_mark_safe(ai, cell, count, id) ==
    LET a1 == [ai EXCEPT !.moves_made = @ \cup {cell}]
    IN  [a1 EXCEPT !.knowledge = Append(@, Sentence(get_neighbors(cell), count, id))]

\* add_knowledge, steps 1 to 3: record the move, mark the cell safe, append
\* the Sentence over the cell's neighbours
observe(ai, cell, count, id) ==
    LET a1 == [ai EXCEPT !.moves_made = @ \cup {cell}]
        a2 == mark_safe(a1, cell)
    IN  [a2 EXCEPT !.knowledge = Append(@, Sentence(get_neighbors(cell), count, id))]

\* MinesweeperAI.add_knowledge. failed = <<>>: the call returned and ai is
\* the knowledge base it left; otherwise diff_sentences raised KeyError on the
\* pair failed, and ai is the knowledge base when that diff_sentences started.
add_knowledge(ai, cell, count, id) ==
    LET a3 == observe(ai, cell, count, id)
        res == resolve(a3.knowledge, subset_pairs(a3.knowledge))
        a4 == [a3 EXCEPT !.knowledge = res.knowledge]
    IN  IF res.failed # <<>>
        THEN [ai |-> a4, failed |-> res.failed]
        ELSE [ai |-> collapse_mine(collapse_safe(a4, 1, {}), 1, {}), failed |-> <<>>]

\* make_safe_move that skips the loop removing the moves made
make_safe_move_no_removal(ai) ==
    IF ai.safes = {}
    THEN [ai |-> ai, raised |-> "none", rets |-> {None}]
    ELSE [ai |-> ai, raised |-> "none", rets |-> ai.safes]

\* make_safe_move that works on self.safes itself instead of a copy
make_safe_move_alias(ai) ==
    LET safes_copy == ai.safes \ ai.moves_made
        left == [ai EXCEPT !.safes = safes_copy]
    IN  IF ai.safes = {}
        THEN [ai |-> ai, raised |-> "none", rets |-> {None}]
        ELSE IF ~(ai.moves_made \subseteq ai.safes)
             THEN [ai |-> ai, raised |-> "KeyError", rets |-> {}]
             ELSE IF safes_copy = {}
                  THEN [ai |-> left, raised |-> "none", rets |-> {None}]
                  ELSE [ai |-> left, raised |-> "none", rets |-> safes_copy]

\* MinesweeperAI.make_safe_move. ai: the knowledge base the call leaves;
\* raised: the exception it raises ("none": it returns); rets: the values
\* next(iter(safes_copy)) can return, depending on the set's iteration order.
make_safe_move(ai) ==
    LET safes_copy == ai.safes \ ai.moves_made
    IN  IF ai.safes = {}
        THEN [ai |-> ai, raised |-> "none", rets |-> {None}]
        ELSE IF ~(ai.moves_made \subseteq ai.safes)
             THEN [ai |-> ai, raised |-> "KeyError", rets |-> {}]
             ELSE IF safes_copy = {}
                  THEN [ai |-> ai, raised |-> "none", rets |-> {None}]
                  ELSE [ai |-> ai, raised |-> "none", rets |-> safes_copy]

\* make_random_move that skips the loop removing the known mines
make_random_move_keeps_mines(ai, h, w) ==
    LET all_cells == Cells(h, w)
        unmoved == all_cells \ ai.moves_made
    IN  IF ~(ai.moves_made \subseteq all_cells)
        THEN [ai |-> ai, raised |-> "KeyError", rets |-> {}]
        ELSE IF unmoved = {}
             THEN [ai |-> ai, raised |-> "StopIteration", rets |-> {}]
             ELSE [ai |-> ai, raised |-> "none", rets |-> unmoved]

\* MinesweeperAI.make_random_move, with the same result shape
make_random_move(ai, h, w) ==
    LET all_cells == Cells(h, w)
        unmoved == all_cells \ ai.moves_made
        eligible == unmoved \ ai.mines
    IN  IF ~(ai.moves_made \subseteq all_cells) \/ ~(ai.mines \subseteq unmoved)
        THEN [ai |-> ai, raised |-> "KeyError", rets |-> {}]
        ELSE IF eligible = {}
             THEN [ai |-> ai, raised |-> "StopIteration", rets |-> {}]
             ELSE [ai |-> ai, raised |-> "none", rets |-> eligible]

-----------------------------------------------------------------------------
(* The state machine *)

\* the knowledge base held in the variables
TheAI == [moves_made |-> moves_made, mines |-> mines, safes |-> safes,
          knowledge |-> knowledge]

Op(name, cell, count) == [name |-> name, cell |-> cell, count |-> count]

\* the cells add_knowledge is called on, and where the mines that vary lie
Region == { <<k % StripRows, k \div StripRows>> : k \in 0 .. RegionSize - 1 }

\* Minesweeper.__init__ on the default board: MineCount distinct mines; the
\* layouts explored have at most MaxNearMines of them in Region and the
\* others in the last row
Layouts ==
    { near \cup { <<DefaultSize - 1, c>> : c \in 0 .. (MineCount - Cardinality(near) - 1) } :
        near \in { n \in SUBSET Region : Cardinality(n) <= MaxNearMines } }

\* MinesweeperAI.__init__ and Minesweeper.__init__ with the default size
Init ==
    /\ height = DefaultSize
    /\ width = DefaultSize
    /\ board \in Layouts
    /\ moves_made = NewAI.moves_made
    /\ mines = NewAI.mines
    /\ safes = NewAI.safes
    /\ knowledge = NewAI.knowledge
    /\ op = Op("init", None, 0)
    /\ ret = None
    /\ raised = "none"
    /\ calls = 0

\* The driver loop: a cell is revealed by a click on any cell when no move
\* of the AI is pending, and otherwise is the move the AI has just selected
may_reveal(cell) == ret = None \/ cell = ret

\* The driver loop asks the AI for a move when none is pending
may_select == ret = None

\* MinesweeperAI.__init__ with a height and a width of 1..MaxSide, played
\* against a board of that size that holds at most MaxSmallMines mines. The
\* board is the ground truth the counts come from; it is not built by
\* Minesweeper.__init__, which places MineCount mines whatever the size.
InitAI ==
    /\ height \in 1 .. MaxSide
    /\ width \in 1 .. MaxSide
    /\ board \in { b \in SUBSET Cells(height, width) : Cardinality(b) <= MaxSmallMines }
    /\ moves_made = NewAI.moves_made
    /\ mines = NewAI.mines
    /\ safes = NewAI.safes
    /\ knowledge = NewAI.knowledge
    /\ op = Op("init", None, 0)
    /\ ret = None
    /\ raised = "none"
    /\ calls = 0

\* the effect of a call ai.add_knowledge(cell, count) on the AI
Told(cell, count) ==
    \E r \in {add_knowledge(TheAI, cell, count, calls + 1)} :
        /\ op' = Op("add_knowledge", cell, count)
        /\ calls' = calls + 1
        /\ ret' = None
        /\ moves_made' = r.ai.moves_made
        /\ mines' = r.ai.mines
        /\ safes' = r.ai.safes
        /\ IF r.failed = <<>>
           THEN /\ knowledge' = r.ai.knowledge
                /\ raised' = "none"
           ELSE \* diff_sentences removed the cells it iterated over before
                \* the first one absent from the target; the set's
                \* iteration order decides which
                /\ \E done \in SUBSET (r.ai.knowledge[r.failed[1]].cells
                                        \cap r.ai.knowledge[r.failed[2]].cells) :
                      knowledge' = [r.ai.knowledge EXCEPT
                                       ![r.failed[2]].cells = @ \ done]
                /\ raised' = "KeyError"

\* a call ai.add_knowledge(cell, game.nearby_mines(cell)) on a cell of the
\* board that is not a mine
AddKnowledge(cell) ==
    /\ raised = "none"
    /\ calls < MaxCalls
    /\ may_reveal(cell)
    /\ cell \in Cells(height, width)
    /\ ~is_mine(board, cell)
    /\ \E count \in {nearby_mines(height, width, board, cell)} : Told(cell, count)
    /\ UNCHANGED <<height, width, board>>

\* the effect of a move selector's call on the variables
Selected(name, r) ==
    /\ op' = Op(name, None, 0)
    /\ moves_made' = r.ai.moves_made
    /\ mines' = r.ai.mines
    /\ safes' = r.ai.safes
    /\ knowledge' = r.ai.knowledge
    /\ raised' = r.raised
    /\ IF r.raised = "none"
       THEN \E v \in r.rets : ret' = v
       ELSE ret' = None
    /\ UNCHANGED <<height, width, board, calls>>

\* a call ai.make_safe_move()
MakeSafeMove ==
    /\ raised = "none"
    /\ calls <= MaxQueryCalls
    /\ may_select
    /\ \E r \in {make_safe_move(TheAI)} : Selected("make_safe_move", r)

\* a call ai.make_random_move()
MakeRandomMove ==
    /\ raised = "none"
    /\ calls <= MaxQueryCalls
    /\ may_select
    /\ \E r \in {make_random_move(TheAI, height, width)} :
          Selected("make_random_move", r)

Next ==
    \/ \E cell \in Region : AddKnowledge(cell)
    \/ MakeSafeMove
    \/ MakeRandomMove

Spec == Init /\ [][Next]_vars

SpecAI == InitAI /\ [][Next]_vars

-----------------------------------------------------------------------------
(* The AI's methods called directly, with any arguments *)

\* MinesweeperAI.__init__ with the default size; the board plays no part
InitAPI ==
    /\ height = DefaultSize
    /\ width = DefaultSize
    /\ board = { <<DefaultSize - 1, c>> : c \in 0 .. MineCount - 1 }
    /\ moves_made = NewAI.moves_made
    /\ mines = NewAI.mines
    /\ safes = NewAI.safes
    /\ knowledge = NewAI.knowledge
    /\ op = Op("init", None, 0)
    /\ ret = None
    /\ raised = "none"
    /\ calls = 0

\* a call ai.add_knowledge(cell, count) with a count of the caller's choice
AddKnowledgeAny(cell, count) ==
    /\ raised = "none"
    /\ calls < MaxAPICalls
    /\ Told(cell, count)
    /\ UNCHANGED <<height, width, board>>

\* the effect of a call of a mutator that leaves the AI as r
Marked(name, cell, r) ==
    /\ op' = Op(name, cell, 0)
    /\ calls' = calls + 1
    /\ moves_made' = r.moves_made
    /\ mines' = r.mines
    /\ safes' = r.safes
    /\ knowledge' = r.knowledge
    /\ UNCHANGED <<height, width, board, ret, raised>>

\* a call ai.mark_safe(cell)
MarkSafe(cell) ==
    /\ raised = "none"
    /\ calls < MaxAPICalls
    /\ Marked("mark_safe", cell, mark_safe(TheAI, cell))

\* a call ai.mark_mine(cell)
MarkMine(cell) ==
    /\ raised = "none"
    /\ calls < MaxAPICalls
    /\ Marked("mark_mine", cell, mark_mine(TheAI, cell))

NextAPI ==
    \/ \E cell \in Region : \E count \in 0 .. MaxCount : AddKnowledgeAny(cell, count)
    \/ \E cell \in Region : MarkSafe(cell)
    \/ \E cell \in Region : MarkMine(cell)

SpecAPI == InitAPI /\ [][NextAPI]_vars

-----------------------------------------------------------------------------
(* Properties *)

\* the 8-neighbourhood of cell clipped to the board: what nearby_mines counts
Neighbourhood(cell) ==
    { n \in Cells(height, width) :
        /\ n # cell
        /\ n[1] - cell[1] \in -1 .. 1
        /\ n[2] - cell[2] \in -1 .. 1 }

\* the last call was an add_knowledge call and it returned
Returned == op.name = "add_knowledge" /\ raised = "none"

\* C1: soundness. Every cell of the AI's mines set is a mine of the board and
\* no cell of the AI's safes set is one, in every state reached by
\* add_knowledge calls on non-mine cells with their true counts.
C1_Sound == mines \subseteq board /\ safes \cap board = {}

\* a call has deduced a mine, and a safe cell that was not revealed
C1_Witness == Returned /\ mines # {} /\ safes \ moves_made # {}

\* C2: the safes set and the mines set of the AI are disjoint in every state
\* reached by add_knowledge calls that observe one fixed board.
C2_Disjoint == safes \cap mines = {}

\* both sets are populated, safes beyond the cells revealed
C2_Witness == mines # {} /\ Cardinality(safes) > Cardinality(moves_made)

\* C3: after every add_knowledge call that completes, every Sentence of
\* knowledge has 0 <= count <= |cells|.
C3_CountInRange ==
    raised = "none" =>
        \A i \in 1 .. Len(knowledge) :
            /\ 0 <= knowledge[i].count
            /\ knowledge[i].count <= Cardinality(knowledge[i].cells)

\* a completed call leaves a Sentence at the upper end of the range
C3_Witness ==
    /\ Returned
    /\ \E i \in 1 .. Len(knowledge) :
          /\ knowledge[i].count >= 1
          /\ knowledge[i].count = Cardinality(knowledge[i].cells)

\* C4: after every add_knowledge call that completes, no cell of safes and no
\* cell of mines occurs in the cells of a Sentence of knowledge.
C4_NoKnownCellInSentence ==
    Returned =>
        \A i \in 1 .. Len(knowledge) :
            knowledge[i].cells \cap (safes \cup mines) = {}

\* C5: make_safe_move never raises, returns a cell of safes that is not in
\* moves_made, and returns None exactly when safes minus moves_made is empty.
C5_SafeMove ==
    op.name = "make_safe_move" =>
        /\ raised = "none"
        /\ (ret = None <=> safes \ moves_made = {})
        /\ (ret # None => ret \in safes \ moves_made)

\* make_safe_move returned a cell after some cells were revealed
C5_Witness == op.name = "make_safe_move" /\ ret # None /\ moves_made # {}

\* C6: make_safe_move is a pure query: a call leaves safes, mines, moves_made
\* and every Sentence of knowledge unchanged.
C6_SafeMovePure ==
    [][op'.name = "make_safe_move" =>
          UNCHANGED <<safes, mines, moves_made, knowledge>>]_vars

\* make_safe_move was called on a knowledge base that holds Sentences, moves
\* and safe cells that are not moves
C6_Witness ==
    /\ op.name = "make_safe_move"
    /\ knowledge # <<>>
    /\ moves_made # {}
    /\ ~(safes \subseteq moves_made)

\* C7: whenever a board cell is neither in moves_made nor in mines,
\* make_random_move returns a cell of the board that is not in moves_made and
\* not in mines, and leaves safes, mines, moves_made and knowledge unchanged.
C7_RandomMove ==
    [][(/\ op'.name = "make_random_move"
        /\ Cells(height, width) \ (moves_made \cup mines) # {})
       => /\ raised' = "none"
          /\ ret' \in Cells(height, width) \ (moves_made \cup mines)
          /\ UNCHANGED <<safes, mines, moves_made, knowledge>>]_vars

\* make_random_move returned a cell when the AI knew a mine
C7_Witness ==
    /\ op.name = "make_random_move"
    /\ raised = "none"
    /\ mines # {}
    /\ moves_made # {}

\* C8: when every board cell is in moves_made or in mines, make_random_move
\* reports "no move available" as a result value and does not raise.
C8_NoMoveReported ==
    (/\ op.name = "make_random_move"
     /\ Cells(height, width) \subseteq moves_made \cup mines)
    => raised = "none" /\ ret = None

\* C9: after add_knowledge(cell, 0) returns, every in-bounds neighbour of
\* cell is in safes, cell is in safes and in moves_made, and the Sentence
\* created for cell is not in knowledge.
C9_ZeroCount ==
    (Returned /\ op.count = 0) =>
        /\ Neighbourhood(op.cell) \subseteq safes
        /\ op.cell \in safes
        /\ op.cell \in moves_made
        /\ \A i \in 1 .. Len(knowledge) : knowledge[i].id # calls

\* a zero count was observed while earlier Sentences remain in knowledge
C9_Witness == Returned /\ op.count = 0 /\ calls >= 2 /\ knowledge # <<>>

\* C10: after any add_knowledge call returns, no Sentence with count == 0
\* remains in knowledge.
C10_NoZeroCountLeft ==
    Returned => \A i \in 1 .. Len(knowledge) : knowledge[i].count # 0

\* C11: after any add_knowledge call returns, no Sentence with exactly one
\* cell and count == 1 remains in knowledge (the singleton-mine collapse is
\* complete, also for a Sentence at an earlier list position that becomes a
\* singleton only after another mine is marked in the same call).
C11_NoSingletonMineLeft ==
    Returned =>
        \A i \in 1 .. Len(knowledge) :
            ~(Cardinality(knowledge[i].cells) = 1 /\ knowledge[i].count = 1)

\* C12: after any add_knowledge call returns, no Sentence with a non-empty
\* cell set of any size has count == |cells| (the full-count collapse marked
\* its cells as mines and removed it).
C12_NoFullCountLeft ==
    Returned =>
        \A i \in 1 .. Len(knowledge) :
            knowledge[i].cells # {} =>
                knowledge[i].count # Cardinality(knowledge[i].cells)

\* C14: after any add_knowledge call returns, knowledge holds no two distinct
\* Sentences A and B with A.cells non-empty and A.cells a subset of B.cells.
C14_NoSubsetPairLeft ==
    Returned =>
        \A i, j \in 1 .. Len(knowledge) :
            (i # j /\ knowledge[i].cells # {}) =>
                ~(knowledge[i].cells \subseteq knowledge[j].cells)

\* C19: moves_made is a subset of safes, and moves_made and mines are
\* disjoint, in every state reached by add_knowledge calls on one board.
C19_MovesAreSafe == moves_made \subseteq safes /\ moves_made \cap mines = {}

\* several cells were revealed and a mine was deduced
C19_Witness == Cardinality(moves_made) >= 2 /\ mines # {} /\ raised = "none"

\* C20: every add_knowledge call of a sequence of calls on distinct non-mine
\* cells with their true counts returns without raising.
C20_RunsToCompletion ==
    (op.name = "add_knowledge" /\ calls = Cardinality(moves_made))
    => raised = "none"

\* the list of Sentences as Sentence.__eq__ compares them: cells and count
CellsAndCounts(k) == [i \in 1 .. Len(k) |-> <<k[i].cells, k[i].count>>]

\* C18: an add_knowledge call for a cell that is already in moves_made is a
\* no-op: safes, mines, moves_made and the list of Sentences (cells and
\* counts) are the same after the call as before it.
C18_DuplicateIsNoOp ==
    [][(op'.name = "add_knowledge" /\ op'.cell \in moves_made /\ raised' = "none")
        => /\ safes' = safes
           /\ mines' = mines
           /\ moves_made' = moves_made
           /\ CellsAndCounts(knowledge') = CellsAndCounts(knowledge)]_vars

\* C13: when, once the new Sentence is appended, (A, B) is the only pair of
\* Sentences with A.cells a subset of B.cells, the call changes B to the
\* cells SB \ SA with count b - a and leaves A unchanged, whichever of A and
\* B comes first in the knowledge list. Read off the state the call returns:
\* B, if it is still in knowledge, holds no cell of A, and when the two
\* collapse passes find nothing to do knowledge is exactly the result of the
\* subtraction.
C13_SubsetSubtraction ==
    [][(op'.name = "add_knowledge" /\ raised' = "none")
        => LET K == observe(TheAI, op'.cell, op'.count, calls').knowledge
               \* the pairs of positions (a, b) with K[a].cells a subset of
               \* K[b].cells, in either list order
               QualifyingPairs ==
                   { p \in (1 .. Len(K)) \X (1 .. Len(K)) :
                       p[1] # p[2] /\ K[p[1]].cells \subseteq K[p[2]].cells }
               \* K with the subtraction rule applied to the pair p
               Subtracted(p) ==
                   [K EXCEPT ![p[2]] = [@ EXCEPT !.cells = @ \ K[p[1]].cells,
                                                 !.count = @ - K[p[1]].count]]
               \* neither collapse pass touches a Sentence of k
               NothingToCollapse(k) ==
                   \A i \in 1 .. Len(k) :
                       /\ k[i].count # 0
                       /\ ~(k[i].count = 1 /\ Cardinality(k[i].cells) = 1)
           IN  \A p \in QualifyingPairs :
                   QualifyingPairs = {p}
                   => /\ \A i \in 1 .. Len(knowledge') :
                             knowledge'[i].id = K[p[2]].id
                             => knowledge'[i].cells \cap K[p[1]].cells = {}
                      /\ NothingToCollapse(Subtracted(p))
                         => knowledge' = Subtracted(p)]_vars

\* C15: for the height and width the AI is constructed with, and every cell
\* (r, c) of the board, get_neighbors((r, c)) is the set of the cells at
\* Chebyshev distance 1 that lie on the board, the cells nearby_mines counts
\* over.
C15_NeighboursOnBoard ==
    \A cell \in Cells(height, width) : get_neighbors(cell) = Neighbourhood(cell)

\* C16: in any state and for any cell c, mark_safe(c) called twice yields
\* the same safes, mines and Sentences (cells and counts) as mark_safe(c)
\* called once, and likewise mark_mine(c): the second mark_mine(c) decrements
\* no count again.
C16_MarkIdempotent ==
    \A c \in Region :
        LET same(a, b) == /\ a.safes = b.safes
                          /\ a.mines = b.mines
                          /\ CellsAndCounts(a.knowledge) = CellsAndCounts(b.knowledge)
        IN  /\ same(mark_safe(mark_safe(TheAI, c), c), mark_safe(TheAI, c))
            /\ same(mark_mine(mark_mine(TheAI, c), c), mark_mine(TheAI, c))

\* mark_mine was called on a cell of a Sentence and decremented its count
C16_Witness ==
    /\ op.name = "mark_mine"
    /\ \E i \in 1 .. Len(knowledge) :
          op.cell \in knowledge[i].mines /\ knowledge[i].cells # {}

\* C17: an add_knowledge call whose count cannot be reconciled with the
\* Sentences does not return normally with a Sentence of count < 0 or of
\* count > |cells| left in knowledge.
C17_InconsistencyDetected ==
    Returned =>
        \A i \in 1 .. Len(knowledge) :
            ~(knowledge[i].count < 0)
            /\ ~(knowledge[i].count > Cardinality(knowledge[i].cells))

====
